---- MODULE Spec2Model ----
(***************************************************************************)
(* Model of cmd/jira/init.go: the `init` command (initialize) and the jira *)
(* API client (NewClient, WithTimeout, Get, GetV1, request).               *)
(*                                                                         *)
(* Strings are sequences of one-character strings, so that TrimSuffix and  *)
(* concatenation are computed and not assumed.  "DEL" stands for the       *)
(* control character 0x7f, which net/url rejects.                          *)
(***************************************************************************)
EXTENDS Integers, Sequences, FiniteSets, TLC

\* ---- bounds -------------------------------------------------------------
NCalls == 2        \* number of Get/GetV1 calls that may run concurrently
MaxSlashes == 2    \* longest run of '/' at the end of Config.Server
MaxOpts == 1       \* longest option list handed to NewClient

\* ---- constants of the source ---------------------------------------------
baseURLv3 == <<"/", "r", "e", "s", "t", "/", "a", "p", "i", "/", "3">>

baseURLv1 == <<"/", "r", "e", "s", "t", "/", "a", "g", "i", "l", "e", "/", "1", ".", "0">>

ErrNoResult == "jira: no result"

ErrEmptyResponse == "jira: empty response from server"

ErrUnexpectedStatusCode == "jira: unexpected status code"

ErrSkip == "ErrSkip"

\* ---- strings --------------------------------------------------------------
HasSuffix(s, suffix) ==
    /\ Len(s) >= Len(suffix)
    /\ SubSeq(s, Len(s) - Len(suffix) + 1, Len(s)) = suffix

\* strings.TrimSuffix: removes ONE occurrence of suffix, if present.
TrimSuffix(s, suffix) ==
    IF HasSuffix(s, suffix) THEN SubSeq(s, 1, Len(s) - Len(suffix)) ELSE s

RECURSIVE Slashes(_)
Slashes(n) == IF n = 0 THEN <<>> ELSE <<"/">> \o Slashes(n - 1)

\* ---- inputs ---------------------------------------------------------------
Servers == { <<"h">> \o Slashes(n) : n \in 0..MaxSlashes }

Logins == { <<"u">> }

Tokens == { <<"t">> }

Timeouts == { 5 }

Paths == { <<"/", "a">>, <<"/", "DEL">> }

Config == [Server : Servers, Login : Logins, APIToken : Tokens, Debug : BOOLEAN]

OptLists == UNION { [1..n -> Timeouts] : n \in 0..MaxOpts }

GenerateResults == { "nil", ErrSkip, "error" }

CallIds == 1..NCalls

\* ---- state ----------------------------------------------------------------
VARIABLES
    phase,      \* "start" | "init" (initialize has run) | "client" (NewClient has returned)
    cmdOut,     \* lines printed by initialize
    exitCode,   \* -1 while the process has not exited, else the os.Exit status
    genErr,     \* what c.Generate() returned to initialize
    cfg,        \* the Config handed to NewClient
    opts,       \* the WithTimeout arguments handed to NewClient, in order
    client,     \* the Client
    calls,      \* per call: position, arguments and result of Get/GetV1
    req,        \* per call: the request handed to transport.RoundTrip
    rt,         \* per call: what transport.RoundTrip returned
    ctxErr,     \* per call: ctx.Err() of the caller's context
    stdout      \* lines printed by request

vars == <<phase, cmdOut, exitCode, genErr, cfg, opts, client, calls, req, rt, ctxErr, stdout>>

cmdVars == <<cmdOut, exitCode, genErr>>

callVars == <<calls, req, rt, ctxErr, stdout>>

\* Zero value of the Client struct.
Client ==
    [transport |-> [dialTimeout |-> 0], server |-> <<>>, login |-> <<>>,
     token |-> <<>>, timeout |-> 0, debug |-> FALSE]

NoCall == [pc |-> "idle", method |-> "", path |-> <<>>, endpoint |-> <<>>,
           res |-> 0, err |-> "nil", roundTrips |-> 0]

NoRequest == [method |-> "", url |-> <<>>, auth |-> <<>>, ctx |-> 0]

NoResult == [res |-> 0, err |-> "nil"]

Init ==
    /\ phase = "start"
    /\ cmdOut = <<>>
    /\ exitCode = -1
    /\ genErr = "nil"
    /\ cfg = [Server |-> <<>>, Login |-> <<>>, APIToken |-> <<>>, Debug |-> FALSE]
    /\ opts = <<>>
    /\ client = Client
    /\ calls = [i \in CallIds |-> NoCall]
    /\ req = [i \in CallIds |-> NoRequest]
    /\ rt = [i \in CallIds |-> NoResult]
    /\ ctxErr = [i \in CallIds |-> "nil"]
    /\ stdout = <<>>

\* ---- the init command -------------------------------------------------------
\* Variant: os.Exit(1) only in the failure branch, so a skip falls through.
initialize_skipFallsThrough(e) ==
    /\ phase = "start"
    /\ phase' = "init"
    /\ genErr' = e
    /\ IF e = "nil"
       THEN cmdOut' = <<"Configuration generated">> /\ exitCode' = exitCode
       ELSE IF e = ErrSkip
       THEN /\ cmdOut' = <<"Skipping config generation", "Configuration generated">>
            /\ exitCode' = exitCode
       ELSE cmdOut' = <<"Unable to generate configuration">> /\ exitCode' = 1
    /\ UNCHANGED <<cfg, opts, client, callVars>>

initialize(e) ==
    /\ phase = "start"
    /\ phase' = "init"
    /\ genErr' = e
    /\ IF e # "nil"
       THEN /\ cmdOut' = IF e = ErrSkip THEN <<"Skipping config generation">>
                                        ELSE <<"Unable to generate configuration">>
            /\ exitCode' = 1
       ELSE /\ cmdOut' = <<"Configuration generated">>
            /\ exitCode' = exitCode
    /\ UNCHANGED <<cfg, opts, client, callVars>>

\* ---- the client -------------------------------------------------------------
\* WithTimeout(to) applied to client c.
WithTimeout(to, c) == [c EXCEPT !.timeout = to]

RECURSIVE ApplyOpts(_, _)
ApplyOpts(os, c) ==
    IF os = <<>> THEN c ELSE ApplyOpts(Tail(os), WithTimeout(Head(os), c))

NewClient(c, os) ==
    /\ phase = "start"
    /\ phase' = "client"
    /\ cfg' = c
    /\ opts' = os
    /\ LET c1 == [Client EXCEPT !.server = TrimSuffix(c.Server, <<"/">>),
                                !.login = c.Login,
                                !.token = c.APIToken,
                                !.debug = c.Debug]
           c2 == [c1 EXCEPT !.transport = [dialTimeout |-> c1.timeout]]
       IN client' = ApplyOpts(os, c2)
    /\ UNCHANGED <<cmdVars, callVars>>

\* fmt.Printf("Requesting: %s\n", endpoint)
TraceLine(endpoint) == <<"Requesting: ">> \o endpoint

\* http.NewRequest fails when url.Parse rejects the URL; a control character
\* is rejected ("net/url: invalid control character in URL").
NewRequestFails(url) == \E k \in 1..Len(url) : url[k] = "DEL"

\* req.SetBasicAuth: Authorization = "Basic " + base64(username + ":" + password);
\* base64 is injective and left uninterpreted.
SetBasicAuth(username, password) == <<"Basic ">> \o username \o <<":">> \o password

\* ctx.Err() as an error value.
CtxError(e) == IF e = "canceled" THEN "context canceled" ELSE "context deadline exceeded"

\* Variant: the trace is printed whatever the debug flag.
request_alwaysTrace(i, method, path, endpoint) ==
    /\ phase = "client"
    /\ calls[i].pc = "idle"
    /\ calls' = [calls EXCEPT ![i] = [NoCall EXCEPT !.pc = "build", !.method = method,
                                                    !.path = path, !.endpoint = endpoint]]
    /\ stdout' = Append(stdout, TraceLine(endpoint))
    /\ UNCHANGED <<phase, cmdVars, cfg, opts, client, req, rt, ctxErr>>

\* Variant: the call stores the resolved endpoint in the client.
request_mutates(i, method, path, endpoint) ==
    /\ phase = "client"
    /\ calls[i].pc = "idle"
    /\ calls' = [calls EXCEPT ![i] = [NoCall EXCEPT !.pc = "build", !.method = method,
                                                    !.path = path, !.endpoint = endpoint]]
    /\ stdout' = IF client.debug THEN Append(stdout, TraceLine(endpoint)) ELSE stdout
    /\ client' = [client EXCEPT !.server = endpoint]
    /\ UNCHANGED <<phase, cmdVars, cfg, opts, req, rt, ctxErr>>

\* First part of request: the debug trace.
request(i, method, path, endpoint) ==
    /\ phase = "client"
    /\ calls[i].pc = "idle"
    /\ calls' = [calls EXCEPT ![i] = [NoCall EXCEPT !.pc = "build", !.method = method,
                                                    !.path = path, !.endpoint = endpoint]]
    /\ stdout' = IF client.debug THEN Append(stdout, TraceLine(endpoint)) ELSE stdout
    /\ UNCHANGED <<phase, cmdVars, cfg, opts, client, req, rt, ctxErr>>

\* Variant: Get uses the agile prefix.
Get_wrongPrefix(i, path) == request(i, "Get", path, client.server \o baseURLv1 \o path)

Get(i, path) == request(i, "Get", path, client.server \o baseURLv3 \o path)

GetV1(i, path) == request(i, "GetV1", path, client.server \o baseURLv1 \o path)

\* Variant: SetBasicAuth(c.token, c.login).
requestSend_swappedAuth(i) ==
    /\ calls[i].pc = "build"
    /\ IF NewRequestFails(calls[i].endpoint)
       THEN /\ calls' = [calls EXCEPT ![i].pc = "done", ![i].res = 0, ![i].err = "parse"]
            /\ req' = req
       ELSE /\ req' = [req EXCEPT ![i] = [method |-> "GET",
                                          url |-> calls[i].endpoint,
                                          auth |-> SetBasicAuth(client.token, client.login),
                                          ctx |-> i]]
            /\ calls' = [calls EXCEPT ![i].pc = "roundtrip",
                                      ![i].roundTrips = calls[i].roundTrips + 1]
    /\ UNCHANGED <<phase, cmdVars, cfg, opts, client, rt, ctxErr, stdout>>

\* Variant: RoundTrip(req) without req.WithContext(ctx).
requestSend_noContext(i) ==
    /\ calls[i].pc = "build"
    /\ IF NewRequestFails(calls[i].endpoint)
       THEN /\ calls' = [calls EXCEPT ![i].pc = "done", ![i].res = 0, ![i].err = "parse"]
            /\ req' = req
       ELSE /\ req' = [req EXCEPT ![i] = [method |-> "GET",
                                          url |-> calls[i].endpoint,
                                          auth |-> SetBasicAuth(client.login, client.token),
                                          ctx |-> 0]]
            /\ calls' = [calls EXCEPT ![i].pc = "roundtrip",
                                      ![i].roundTrips = calls[i].roundTrips + 1]
    /\ UNCHANGED <<phase, cmdVars, cfg, opts, client, rt, ctxErr, stdout>>

\* Second part of request: build the request, authenticate it, bind it to ctx
\* and hand it to the transport.
requestSend(i) ==
    /\ calls[i].pc = "build"
    /\ IF NewRequestFails(calls[i].endpoint)
       THEN /\ calls' = [calls EXCEPT ![i].pc = "done", ![i].res = 0, ![i].err = "parse"]
            /\ req' = req
       ELSE /\ req' = [req EXCEPT ![i] = [method |-> "GET",
                                          url |-> calls[i].endpoint,
                                          auth |-> SetBasicAuth(client.login, client.token),
                                          ctx |-> i]]
            /\ calls' = [calls EXCEPT ![i].pc = "roundtrip",
                                      ![i].roundTrips = calls[i].roundTrips + 1]
    /\ UNCHANGED <<phase, cmdVars, cfg, opts, client, rt, ctxErr, stdout>>

\* What the transport may return for a request: it honours the context the
\* request is bound to (0 is context.Background, never done).
RoundTrip(r) ==
    IF r.ctx # 0 /\ ctxErr[r.ctx] # "nil"
    THEN { [res |-> 0, err |-> CtxError(ctxErr[r.ctx])] }
    ELSE { [res |-> 200, err |-> "nil"], [res |-> 404, err |-> "nil"],
           [res |-> 0, err |-> "dial"] }

\* Every (response, error) pair a RoundTripper can return; response 0 is nil.
Outcomes ==
    [res : {0, 200, 404},
     err : {"nil", "dial", "context canceled", "context deadline exceeded"}]

\* Variant: a non-200 response is turned into ErrUnexpectedStatusCode.
requestReturn_classify(i, out) ==
    /\ calls[i].pc = "roundtrip"
    /\ out \in RoundTrip(req[i])
    /\ rt' = [rt EXCEPT ![i] = out]
    /\ calls' = IF out.err = "nil" /\ out.res # 200
                THEN [calls EXCEPT ![i].pc = "done", ![i].res = 0,
                                   ![i].err = ErrUnexpectedStatusCode]
                ELSE [calls EXCEPT ![i].pc = "done", ![i].res = out.res, ![i].err = out.err]
    /\ UNCHANGED <<phase, cmdVars, cfg, opts, client, req, ctxErr, stdout>>

\* Variant: a transport error is retried once.
requestReturn_retry(i, out) ==
    /\ calls[i].pc = "roundtrip"
    /\ out \in RoundTrip(req[i])
    /\ rt' = [rt EXCEPT ![i] = out]
    /\ calls' = IF out.err # "nil" /\ calls[i].roundTrips < 2
                THEN [calls EXCEPT ![i].roundTrips = calls[i].roundTrips + 1]
                ELSE [calls EXCEPT ![i].pc = "done", ![i].res = out.res, ![i].err = out.err]
    /\ UNCHANGED <<phase, cmdVars, cfg, opts, client, req, ctxErr, stdout>>

\* Third part of request: the transport returns and request returns res, err.
requestReturn(i, out) ==
    /\ calls[i].pc = "roundtrip"
    /\ out \in RoundTrip(req[i])
    /\ rt' = [rt EXCEPT ![i] = out]
    /\ calls' = [calls EXCEPT ![i].pc = "done", ![i].res = out.res, ![i].err = out.err]
    /\ UNCHANGED <<phase, cmdVars, cfg, opts, client, req, ctxErr, stdout>>

\* The caller cancels the context of call i while the call is running: before
\* the transport is invoked or while the request is in flight.
Cancel(i) ==
    /\ phase = "client"
    /\ calls[i].pc \in {"build", "roundtrip"}
    /\ ctxErr[i] = "nil"
    /\ ctxErr' = [ctxErr EXCEPT ![i] = "canceled"]
    /\ UNCHANGED <<phase, cmdVars, cfg, opts, client, calls, req, rt, stdout>>

\* The deadline of the context of call i elapses while the request is in flight.
DeadlineExceeded(i) ==
    /\ phase = "client"
    /\ calls[i].pc = "roundtrip"
    /\ ctxErr[i] = "nil"
    /\ ctxErr' = [ctxErr EXCEPT ![i] = "deadline"]
    /\ UNCHANGED <<phase, cmdVars, cfg, opts, client, calls, req, rt, stdout>>

Next ==
    \/ \E e \in GenerateResults : initialize(e)
    \/ \E c \in Config, os \in OptLists : NewClient(c, os)
    \/ \E i \in CallIds, p \in Paths : Get(i, p)
    \/ \E i \in CallIds, p \in Paths : GetV1(i, p)
    \/ \E i \in CallIds : requestSend(i)
    \/ \E i \in CallIds, out \in Outcomes : requestReturn(i, out)
    \/ \E i \in CallIds : Cancel(i)
    \/ \E i \in CallIds : DeadlineExceeded(i)

Spec == Init /\ [][Next]_vars

\* ---- properties -------------------------------------------------------------
Started == { i \in CallIds : calls[i].pc # "idle" }

Sent == { i \in CallIds : calls[i].roundTrips >= 1 }

Returned == { i \in CallIds : calls[i].pc = "done" }

\* The URL the specification gives for a call, from the method and path called.
ExpectedURL(i) ==
    client.server \o (IF calls[i].method = "Get" THEN baseURLv3 ELSE baseURLv1)
                  \o calls[i].path

\* C1: when Config.Server ends in one or more '/', the client's server has no
\* trailing '/', and no URL has "//" where the server meets the version prefix.
C1_ServerHasNoTrailingSlash ==
    (phase = "client" /\ HasSuffix(cfg.Server, <<"/">>)) =>
        /\ ~HasSuffix(client.server, <<"/">>)
        /\ \A i \in Started :
              ~(calls[i].endpoint[Len(client.server)] = "/"
                /\ calls[i].endpoint[Len(client.server) + 1] = "/")

\* C2: the last WithTimeout(t) handed to NewClient is the dial timeout of the
\* client's transport; without the option the dial timeout is zero.
C2_TimeoutGovernsDial ==
    phase = "client" =>
        client.transport.dialTimeout = (IF opts = <<>> THEN 0 ELSE opts[Len(opts)])

\* C3: every request handed to the transport is a GET whose URL is the client's
\* server, then /rest/api/3 for Get or /rest/agile/1.0 for GetV1, then the path.
C3_RequestURL ==
    \A i \in Sent : req[i].method = "GET" /\ req[i].url = ExpectedURL(i)

C3_Witness ==
    \E i, j \in Sent :
        /\ calls[i].method = "Get" /\ calls[j].method = "GetV1"
        /\ cfg.Server = <<"h", "/">>
        /\ req[i].url = <<"h">> \o baseURLv3 \o <<"/", "a">>

\* C4: every request handed to the transport carries the Basic authorization
\* made of the Config's Login and APIToken.
C4_BasicAuth ==
    \A i \in Sent : req[i].auth = <<"Basic ">> \o cfg.Login \o <<":">> \o cfg.APIToken

C4_Witness ==
    \E i, j \in Sent :
        /\ calls[i].method = "Get" /\ calls[j].method = "GetV1"
        /\ req[i].auth = <<"Basic ", "u", ":", "t">>
        /\ req[j].auth = <<"Basic ", "u", ":", "t">>

\* C5: the request handed to the transport is bound to the caller's context,
\* and a call whose context was done before the transport responded returns
\* the context's error and no response.
C5_Cancellation ==
    /\ \A i \in Sent : req[i].ctx = i
    /\ \A i \in Sent \cap Returned :
          ctxErr[i] # "nil" =>
              calls[i].res = 0 /\ calls[i].err = CtxError(ctxErr[i])

C5_Witness ==
    /\ \E i \in Sent \cap Returned :
          ctxErr[i] = "canceled" /\ calls[i].err = "context canceled"
    /\ \E i \in Sent \cap Returned :
          ctxErr[i] = "deadline" /\ calls[i].err = "context deadline exceeded"

\* C6: a call that reached the transport returns the transport's (response,
\* error) pair as it is: a response of any status comes with a nil error, and
\* no call returns one of the three sentinel errors.
C6_ResultUnmodified ==
    /\ \A i \in Sent \cap Returned :
          /\ calls[i].res = rt[i].res /\ calls[i].err = rt[i].err
          /\ rt[i].res # 0 => calls[i].err = "nil"
    /\ \A i \in Returned :
          calls[i].err \notin {ErrNoResult, ErrEmptyResponse, ErrUnexpectedStatusCode}

C6_Witness ==
    /\ \E i \in Returned : calls[i].res = 404 /\ calls[i].err = "nil"
    /\ \E i \in Returned : calls[i].res = 0 /\ calls[i].err = "dial"

\* C7: a call invokes the transport at most once: once when the request was
\* built, never when building it failed, and then the call returns the
\* construction error and no response.
C7_NoRetry ==
    \A i \in CallIds :
        /\ calls[i].roundTrips <= 1
        /\ calls[i].pc = "roundtrip" => calls[i].roundTrips = 1
        /\ calls[i].pc = "done" =>
              IF NewRequestFails(calls[i].endpoint)
              THEN calls[i].roundTrips = 0 /\ calls[i].res = 0 /\ calls[i].err = "parse"
              ELSE calls[i].roundTrips = 1

C7_Witness ==
    /\ \E i \in Returned : calls[i].err = "parse" /\ calls[i].roundTrips = 0
    /\ \E i \in Returned : calls[i].err = "dial" /\ calls[i].roundTrips = 1

\* C8: once NewClient has returned, no step of any Get or GetV1 call changes a
\* field of the Client, whatever the interleaving of the calls.
C8_ClientImmutable == [][phase = "client" => client' = client]_vars

C8_Witness ==
    \E i, j \in CallIds :
        /\ i # j
        /\ calls[i].pc = "roundtrip" /\ calls[j].pc = "roundtrip"
        /\ calls[i].method # calls[j].method

\* C9: with debug true every started call has printed exactly one trace line
\* holding its resolved URL, already before its request is built; with debug
\* false nothing is printed.
C9_DebugTrace ==
    /\ Len(stdout) = (IF client.debug THEN Cardinality(Started) ELSE 0)
    /\ \A k \in 1..Len(stdout) : \E i \in Started : stdout[k] = TraceLine(ExpectedURL(i))
    /\ client.debug => \A i \in Started : \E k \in 1..Len(stdout) : stdout[k] = TraceLine(ExpectedURL(i))

C9_Witness ==
    /\ client.debug
    /\ \E i \in CallIds : calls[i].pc = "build" /\ calls[i].roundTrips = 0
    /\ Len(stdout) = 1

\* C10: initialize prints the success message only when Generate returned no
\* error; on ErrSkip or any other error it prints the skip or the failure
\* message, not the success message, and exits with status 1.
C10_InitOutput ==
    /\ phase # "init" => cmdOut = <<>> /\ exitCode = -1
    /\ phase = "init" =>
          /\ genErr = "nil" => cmdOut = <<"Configuration generated">> /\ exitCode = -1
          /\ genErr = ErrSkip => cmdOut = <<"Skipping config generation">> /\ exitCode = 1
          /\ genErr = "error" => cmdOut = <<"Unable to generate configuration">> /\ exitCode = 1

C10_Witness == phase = "init" /\ genErr = ErrSkip /\ exitCode = 1

====
